---- MODULE Spec2Model ----
(***************************************************************************)
(* Scam-analysis backend: the analyze_message pipeline of app.py, the      *)
(* Judge of models/judge.py and the AILawyer of models/ai_lawyer.py.       *)
(*                                                                         *)
(* Text is a sequence of one-character strings, so that split, strip,      *)
(* lower and the substring test are computed as Python computes them.      *)
(* The alphabet is ASCII.                                                  *)
(***************************************************************************)
EXTENDS Integers, Sequences, FiniteSets, TLC

(***************************************************************************)
(* Python str operations                                                   *)
(***************************************************************************)

\* the characters str.strip() and str.split() treat as whitespace
Whitespace == {" ", "\t", "\n", "\r"}

UpperCase == <<"A","B","C","D","E","F","G","H","I","J","K","L","M",
               "N","O","P","Q","R","S","T","U","V","W","X","Y","Z">>

LowerCase == <<"a","b","c","d","e","f","g","h","i","j","k","l","m",
               "n","o","p","q","r","s","t","u","v","w","x","y","z">>

LowerChar(c) ==
    IF \E i \in 1..26 : UpperCase[i] = c
    THEN LowerCase[CHOOSE i \in 1..26 : UpperCase[i] = c]
    ELSE c

\* str.lower()
Lower(s) == [i \in 1..Len(s) |-> LowerChar(s[i])]

\* sub in s
Contains(s, sub) ==
    \E i \in 1..(Len(s) - Len(sub) + 1) : SubSeq(s, i, i + Len(sub) - 1) = sub

\* str.strip()
Strip(s) ==
    IF \A i \in 1..Len(s) : s[i] \in Whitespace THEN <<>>
    ELSE LET lo == CHOOSE i \in 1..Len(s) :
                       s[i] \notin Whitespace
                       /\ \A j \in 1..(i - 1) : s[j] \in Whitespace
             hi == CHOOSE i \in 1..Len(s) :
                       s[i] \notin Whitespace
                       /\ \A j \in (i + 1)..Len(s) : s[j] \in Whitespace
         IN  SubSeq(s, lo, hi)

\* str.split(sep) for a one-character separator: every field, empty ones too
RECURSIVE SplitOn(_, _)
SplitOn(s, sep) ==
    IF \A i \in 1..Len(s) : s[i] # sep THEN <<s>>
    ELSE LET k == CHOOSE i \in 1..Len(s) :
                      s[i] = sep /\ \A j \in 1..(i - 1) : s[j] # sep
         IN  <<SubSeq(s, 1, k - 1)>> \o SplitOn(SubSeq(s, k + 1, Len(s)), sep)

\* str.split() without arguments: the maximal runs of non-whitespace
RECURSIVE SplitWords(_)
SplitWords(s) ==
    LET t == Strip(s)
    IN  IF t = <<>> THEN <<>>
        ELSE IF \A i \in 1..Len(t) : t[i] \notin Whitespace THEN <<t>>
        ELSE LET k == CHOOSE i \in 1..Len(t) :
                          t[i] \in Whitespace
                          /\ \A j \in 1..(i - 1) : t[j] \notin Whitespace
             IN  <<SubSeq(t, 1, k - 1)>> \o SplitWords(SubSeq(t, k + 1, Len(t)))

\* [line.strip() for line in lines if line.strip()]
RECURSIVE StrippedNonEmpty(_)
StrippedNonEmpty(lines) ==
    IF lines = <<>> THEN <<>>
    ELSE IF Strip(Head(lines)) = <<>> THEN StrippedNonEmpty(Tail(lines))
    ELSE <<Strip(Head(lines))>> \o StrippedNonEmpty(Tail(lines))

\* [line.strip() for line in text.split('\n') if line.strip()]
ResponseLines(text) == StrippedNonEmpty(SplitOn(text, "\n"))

(***************************************************************************)
(* String literals of the source                                           *)
(***************************************************************************)

SCAM ==
    <<"S","C","A","M">>

NOT_A_SCAM ==
    <<"N","O","T"," ","A"," ","S","C","A","M">>

scam ==
    <<"s","c","a","m">>

FallbackSummary ==
    <<"L","e","g","i","t","i","m","a","t","e"," ","j","o","b"," ","o","f",
      "f","e","r"," ","f","r","o","m"," ","P","e","r","s","i","s","t","e",
      "n","t"," ","S","y","s","t","e","m","s"," ","w","i","t","h"," ","s",
      "t","a","n","d","a","r","d"," ","r","e","c","r","u","i","t","m","e",
      "n","t"," ","d","e","t","a","i","l","s">>

FallbackEvidence ==
    <<"C","o","m","p","a","n","y"," ","d","e","t","a","i","l","s"," ","a",
      "n","d"," ","c","o","n","t","a","c","t"," ","i","n","f","o","r","m",
      "a","t","i","o","n"," ","m","a","t","c","h"," ","l","e","g","i","t",
      "i","m","a","t","e"," ","b","u","s","i","n","e","s","s"," ","p","r",
      "a","c","t","i","c","e","s">>

CachedSummary ==
    <<"C","a","c","h","e","d"," ","v","e","r","d","i","c","t"," ","b","a",
      "s","e","d"," ","o","n"," ","s","i","m","i","l","a","r"," ","p","r",
      "e","v","i","o","u","s"," ","c","a","s","e">>

CachedEvidencePrefix ==
    <<"S","i","m","i","l","a","r"," ","c","a","s","e"," ","f","o","u","n",
      "d"," ","i","n"," ","d","a","t","a","b","a","s","e"," ","w","i","t",
      "h"," ">>

CachedEvidenceSuffix ==
    <<"%"," ","m","a","t","c","h">>

ProsecutorName ==
    <<"S","c","a","m"," ","A","n","a","l","y","s","t">>

DefenderName ==
    <<"L","e","g","i","t","i","m","a","c","y"," ","A","n","a","l","y","s",
      "t">>

(***************************************************************************)
(* Python values.  A str is [type |-> "str", text |-> characters]; a dict  *)
(* {'text': s} is [type |-> "dict", text |-> s].                           *)
(***************************************************************************)

PyStr(s) == [type |-> "str", text |-> s]

PyDict(s) == [type |-> "dict", text |-> s]

\* a dict without the key 'text'
PyDictWithoutText == [type |-> "dict", text |-> <<>>, keys |-> {}]

\* a JSON number
PyInt == [type |-> "int", text |-> <<"7">>]

\* a JSON array of one string
PyList == [type |-> "list", text |-> <<"w">>]

PyNone == [type |-> "NoneType", text |-> <<>>]

\* isinstance(v, str)
IsStr(v) == v.type = "str"

\* isinstance(v, dict)
IsDict(v) == v.type = "dict"

\* 'text' in v, for a dict v
HasText(v) == IF "keys" \in DOMAIN v THEN "text" \in v.keys ELSE TRUE

\* v[:100] is defined: a str or a list can be sliced, a number or None
\* raises TypeError
Sliceable(v) == v.type \in {"str", "list"}

\* len(message.split())
WordCount(v) == Len(SplitWords(v.text))

(***************************************************************************)
(* json.dumps(debate_history): a list of {"speaker": ..., "argument": ...} *)
(* with the default separators; ASCII text only.                           *)
(***************************************************************************)

\* the characters json.dumps writes as an escape sequence
JsonEscaped == {"\"", "\\", "\n", "\r", "\t"}

JsonEscapeChar(c) ==
    CASE c = "\"" -> <<"\\", "\"">>
      [] c = "\\" -> <<"\\", "\\">>
      [] c = "\n" -> <<"\\", "n">>
      [] c = "\r" -> <<"\\", "r">>
      [] c = "\t" -> <<"\\", "t">>
      [] OTHER    -> <<c>>

\* every character replaced by its escape sequence
RECURSIVE JsonEscape(_)
JsonEscape(s) ==
    IF \A i \in 1..Len(s) : s[i] \notin JsonEscaped THEN s
    ELSE LET k == CHOOSE i \in 1..Len(s) :
                      s[i] \in JsonEscaped
                      /\ \A j \in 1..(i - 1) : s[j] \notin JsonEscaped
         IN  SubSeq(s, 1, k - 1) \o JsonEscapeChar(s[k])
                 \o JsonEscape(SubSeq(s, k + 1, Len(s)))

JsonString(s) == <<"\"">> \o JsonEscape(s) \o <<"\"">>

JsonSpeakerKey ==
    <<"{","\"","s","p","e","a","k","e","r","\"",":"," ">>

JsonArgumentKey ==
    <<","," ","\"","a","r","g","u","m","e","n","t","\"",":"," ">>

JsonEntry(e) ==
    JsonSpeakerKey \o JsonString(e.speaker)
        \o JsonArgumentKey \o JsonString(e.argument) \o <<"}">>

RECURSIVE JsonEntries(_)
JsonEntries(h) ==
    IF h = <<>> THEN <<>>
    ELSE IF Len(h) = 1 THEN JsonEntry(h[1])
    ELSE JsonEntry(h[1]) \o <<",", " ">> \o JsonEntries(Tail(h))

JsonDumps(h) == <<"[">> \o JsonEntries(h) \o <<"]">>

(***************************************************************************)
(* Similarity scores.  A score in [0, 1] is held as an integer number of   *)
(* 1e-7 units, so that 0.65 and 0.6500001 are both exact.                  *)
(***************************************************************************)

SimScale == 10 * 1000 * 1000

\* the literal 0.65 of check_similar_case
Threshold == (65 * SimScale) \div 100

RECURSIVE Digits(_)
Digits(n) ==
    LET d == <<"0","1","2","3","4","5","6","7","8","9">>
    IN  IF n < 10 THEN <<d[n + 1]>> ELSE Digits(n \div 10) \o <<d[(n % 10) + 1]>>

\* '{:.0f}'.format(similarity * 100): round half to even
FormatPercent(similarity) ==
    LET unit == SimScale \div 100
        q    == similarity \div unit
        r    == similarity % unit
    IN  Digits(IF 2 * r > unit THEN q + 1
               ELSE IF 2 * r = unit THEN q + (q % 2)
               ELSE q)

(***************************************************************************)
(* Inputs: the messages submitted, the texts the generation model answers, *)
(* the results the web search returns.                                     *)
(***************************************************************************)

\* a message of n one-letter words
RECURSIVE Words(_)
Words(n) == IF n <= 1 THEN <<"w">> ELSE Words(n - 1) \o <<" ", "w">>

MsgLottery ==
    <<"F","r","e","e"," ","l","o","t","t","e","r","y","!"," ","S","e","n",
      "d"," ","$","5","0","0"," ","f","e","e"," ","t","o"," ","c","l","a",
      "i","m"," ","$","1",",","0","0","0",",","0","0","0"," ","n","o","w">>

\* len(message.split()) < 50, the 'Simple case threshold' of app.py
SimpleCaseThreshold == 50

Msg49 == Words(SimpleCaseThreshold - 1)

Msg50 == Words(SimpleCaseThreshold)

MsgBlank ==
    <<" "," ">>

\* what callers pass to analyze_message
Messages ==
    {PyStr(MsgLottery), PyStr(Msg49), PyStr(Msg50), PyStr(MsgBlank),
     PyDict(MsgLottery)}

\* what callers pass to Judge.direct_verdict
DirectTopics == {PyStr(MsgLottery)}

ArgFraud ==
    <<"U","p","f","r","o","n","t"," ","f","e","e",":","\n","a"," ","\"","p",
      "r","i","z","e","\""," ","s","c","a","m">>

ArgLegit ==
    <<"N","o"," ","f","e","e"," ","a","s","k","e","d">>

\* texts the prosecutor's generation call may return
Arguments == {ArgFraud, ArgLegit}

\* texts the defender's generation call may return
Rebuttals == {ArgLegit}

RespEmpty ==
    <<>>

RespBlank ==
    <<" ","\n","\t">>

RespScam ==
    <<"V","e","r","d","i","c","t",":"," ","S","C","A","M">>

RespNotAScam ==
    <<" ","V","e","r","d","i","c","t",":"," ","N","o","t"," ","a"," ","S",
      "c","a","m"," ","\n","N","o"," ","f","e","e"," ","i","s"," ","r","e",
      "q","u","e","s","t","e","d">>

RespLegit ==
    <<"\n","L","e","g","i","t","i","m","a","t","e","\n","N","o","t"," ","a",
      " ","s","c","a","m"," ","p","a","t","t","e","r","n","\n","O","f","f",
      "i","c","i","a","l"," ","d","o","m","a","i","n","\n">>

\* texts the judge's generation call may return
Responses == {RespEmpty, RespScam, RespLegit}

\* lines a response may be made of: empty, blank, with and without 'scam'
LineTexts ==
    {<<>>,
     <<" ","\t">>,
     <<"S","C","A","M">>,
     <<" ","n","o","t"," ","a"," ","S","c","a","m"," ">>,
     <<"L","e","g","i","t">>,
     <<"s"," ","c","a","m">>}

\* most lines of a response
MaxLines == 3

\* the texts of n lines
RECURSIVE TextsOfLines(_)
TextsOfLines(n) ==
    IF n <= 1 THEN LineTexts
    ELSE {t \o <<"\n">> \o l : t \in TextsOfLines(n - 1), l \in LineTexts}

\* every response of at most MaxLines lines
ResponseShapes == UNION {TextsOfLines(n) : n \in 1..MaxLines}

\* the first line the judge's prompts ask for, with the label NOT A SCAM
RespPromptNotAScam ==
    <<"V","e","r","d","i","c","t",":"," ","N","O","T"," ","A"," ","S","C",
      "A","M">>

\* responses whose first line is as the judge's prompts ask
PromptedResponses ==
    {RespScam, RespPromptNotAScam, RespPromptNotAScam \o <<"\n">> \o ArgLegit}

\* model.generate_content(prompt).text: a text, or an exception
GenerationOutcomes(texts) ==
    {[ok |-> TRUE, text |-> t] : t \in texts} \cup {[ok |-> FALSE, text |-> <<>>]}

EvidenceItem ==
    [title |-> <<"t">>, snippet |-> <<"s">>, link |-> <<"l">>]

\* perform_web_search: the items found, or [] on any error
SearchResults == {<<>>, <<EvidenceItem>>}

\* what happens inside perform_web_search: the request answers with items
SearchOutcomes == {[ok |-> TRUE, items |-> r] : r \in SearchResults}

\* ... or the request, the decoding or an item's key fails
SearchOutcomesWithErrors ==
    SearchOutcomes \cup {[ok |-> FALSE, items |-> <<>>]}

\* a perform_web_search without the try/except
perform_web_search_uncaught(outcome) ==
    [raised |-> ~outcome.ok, results |-> outcome.items]

\* perform_web_search: every exception is caught and [] returned
perform_web_search(outcome) ==
    [raised  |-> FALSE,
     results |-> IF outcome.ok THEN outcome.items ELSE <<>>]

(***************************************************************************)
(* RAGStore (models/rag_store.py): the persisted sequence of cases, shared *)
(* by every Judge.  A case is a dict with the keys 'topic', 'verdict',     *)
(* 'timestamp' and, from _store_case, 'key_evidence'; the wall-clock value *)
(* of 'timestamp' is not modelled.                                         *)
(***************************************************************************)

\* content similarity of two topics, in 1e-7 units
Similarity(a, b) ==
    LET pair == {a.text, b.text}
    IN  IF a = b THEN SimScale
        ELSE IF pair = {MsgLottery, Msg49} THEN 6500001
        ELSE IF pair = {MsgLottery, Msg50} THEN 6500000
        ELSE IF pair = {Msg49, Msg50} THEN 3000000
        ELSE 0

\* RAGStore.add_case
add_case(cases, case) == Append(cases, case)

\* the index of the first highest-scoring record
BestIndex(scored) ==
    CHOOSE i \in 1..Len(scored) :
        /\ \A j \in 1..Len(scored) : scored[j].similarity <= scored[i].similarity
        /\ \A j \in 1..(i - 1) : scored[j].similarity < scored[i].similarity

RECURSIVE SortDescending(_)
SortDescending(scored) ==
    IF scored = <<>> THEN <<>>
    ELSE LET k == BestIndex(scored)
         IN  <<scored[k]>>
                 \o SortDescending(SubSeq(scored, 1, k - 1)
                                       \o SubSeq(scored, k + 1, Len(scored)))

\* RAGStore.find_similar_cases: every case with its similarity to the
\* topic, most similar first
find_similar_cases(cases, topic) ==
    SortDescending([i \in 1..Len(cases) |->
        [keys       |-> {"topic", "verdict", "similarity"},
         topic      |-> cases[i].topic,
         verdict    |-> cases[i].verdict,
         similarity |-> Similarity(topic, cases[i].topic)]])

(***************************************************************************)
(* Judge (models/judge.py)                                                 *)
(***************************************************************************)

\* the dict {} that check_similar_case returns with False
EmptyDict == [verdict |-> <<>>, summary |-> <<>>, evidence |-> <<>>]

NoSimilarCase ==
    [raised |-> FALSE, has_similar |-> FALSE, verdict |-> EmptyDict,
     queried |-> FALSE]

\* 'SCAM' if 'scam' in text.lower() else 'NOT A SCAM'
Label(text) == IF Contains(Lower(text), scam) THEN SCAM ELSE NOT_A_SCAM

\* similarity >= 0.65: the boundary counted as a hit
AboveThresholdInclusive(similarity) == similarity >= Threshold

\* the similarity, a fraction, compared with the threshold as a percentage
AboveThresholdPercent(similarity) == similarity > 65 * SimScale

\* similarity > 0.65
AboveThreshold(similarity) == similarity > Threshold

\* the verdict_data built on a hit
CachedVerdict(best_match) ==
    [verdict  |-> Label(best_match.verdict.verdict),
     summary  |-> CachedSummary,
     evidence |-> <<CachedEvidencePrefix
                        \o FormatPercent(best_match.similarity)
                        \o CachedEvidenceSuffix>>]

\* best_match['similarity'] or best_match['verdict']['verdict'] raised KeyError
LookupRaised ==
    [raised |-> TRUE, has_similar |-> FALSE, verdict |-> EmptyDict,
     queried |-> TRUE]

\* check_similar_case from 'if similar_cases:' on: the decision taken on
\* what find_similar_cases returned
MatchDecision(similar_cases) ==
    IF similar_cases = <<>> THEN [NoSimilarCase EXCEPT !.queried = TRUE]
    ELSE LET best_match == similar_cases[1]
         IN  IF "similarity" \notin best_match.keys THEN LookupRaised
             ELSE IF ~AboveThreshold(best_match.similarity)
             THEN [NoSimilarCase EXCEPT !.queried = TRUE]
             ELSE IF "verdict" \notin best_match.keys
                         \/ best_match.verdict = EmptyDict
             THEN LookupRaised
             ELSE [raised      |-> FALSE,
                   has_similar |-> TRUE,
                   verdict     |-> CachedVerdict(best_match),
                   queried     |-> TRUE]

\* a check_similar_case that queries the store before it looks at the topic
check_similar_case_eager(cases, topic) ==
    LET decision == MatchDecision(find_similar_cases(cases, topic))
    IN  IF ~IsStr(topic) THEN [NoSimilarCase EXCEPT !.queried = TRUE]
        ELSE IF Strip(topic.text) = <<>>
        THEN [NoSimilarCase EXCEPT !.queried = TRUE]
        ELSE decision

\* Judge.check_similar_case
check_similar_case(cases, topic) ==
    IF ~IsStr(topic) THEN NoSimilarCase
    ELSE IF Strip(topic.text) = <<>> THEN NoSimilarCase
    ELSE MatchDecision(find_similar_cases(cases, topic))

\* a parse that looks for 'scam' in the whole response
ParseVerdictAnyLine(text) ==
    LET lines == ResponseLines(text)
    IN  IF lines = <<>>
        THEN [raised |-> TRUE, verdict_data |-> EmptyDict]
        ELSE [raised       |-> FALSE,
              verdict_data |->
                  [verdict  |-> Label(text),
                   summary  |-> IF Len(lines) > 1 THEN lines[2]
                                ELSE FallbackSummary,
                   evidence |-> IF Len(lines) > 2 THEN <<lines[3]>>
                                ELSE <<FallbackEvidence>>]]

\* a parse without the fallback strings
ParseVerdictNoFallback(text) ==
    LET lines == ResponseLines(text)
    IN  IF lines = <<>>
        THEN [raised |-> TRUE, verdict_data |-> EmptyDict]
        ELSE [raised       |-> FALSE,
              verdict_data |->
                  [verdict  |-> Label(lines[1]),
                   summary  |-> IF Len(lines) > 1 THEN lines[2] ELSE <<>>,
                   evidence |-> IF Len(lines) > 2 THEN <<lines[3]>> ELSE <<>>]]

\* the parse of direct_verdict and analyze_debate; lines[0] raises
\* IndexError when the response has no non-empty line
ParseVerdict(text) ==
    LET lines == ResponseLines(text)
    IN  IF lines = <<>>
        THEN [raised |-> TRUE, verdict_data |-> EmptyDict]
        ELSE [raised       |-> FALSE,
              verdict_data |->
                  [verdict  |-> Label(lines[1]),
                   summary  |-> IF Len(lines) > 1 THEN lines[2]
                                ELSE FallbackSummary,
                   evidence |-> IF Len(lines) > 2 THEN <<lines[3]>>
                                ELSE <<FallbackEvidence>>]]

\* ParseVerdict over the texts the judge's model may return, tabulated
ParsedResponse ==
    [text \in Responses \cup ResponseShapes \cup PromptedResponses |->
        ParseVerdict(text)]

\* the case direct_verdict stores
DirectCase(topic, verdict_data) ==
    [topic        |-> topic,
     verdict      |-> verdict_data,
     keys         |-> {"topic", "verdict", "timestamp"},
     key_evidence |-> <<>>]

\* a _store_case that adds the case twice
store_case_twice(cases, topic, verdict_data, history) ==
    LET case == [topic        |-> topic,
                 verdict      |-> verdict_data,
                 keys         |-> {"topic", "verdict", "key_evidence", "timestamp"},
                 key_evidence |-> JsonDumps(history)]
    IN  add_case(add_case(cases, case), case)

\* Judge._store_case
store_case(cases, topic, verdict_data, history) ==
    add_case(cases,
             [topic        |-> topic,
              verdict      |-> verdict_data,
              keys         |-> {"topic", "verdict", "key_evidence", "timestamp"},
              key_evidence |-> JsonDumps(history)])

\* a record_argument that puts the newest entry first
record_argument_first(history, speaker, argument) ==
    <<[speaker |-> speaker, argument |-> argument]>> \o history

\* Judge.record_argument
record_argument(history, speaker, argument) ==
    Append(history, [speaker |-> speaker, argument |-> argument])

(***************************************************************************)
(* Prompts.  A prompt is held as its template and the values the f-string  *)
(* puts into it; the prompts of the judge have none, and are also given as *)
(* the text they render to.                                                *)
(***************************************************************************)

OpeningStatement ==
    <<"O","p","e","n","i","n","g"," ","s","t","a","t","e","m","e","n","t">>

\* {opponent_argument if opponent_argument else 'Opening statement'}: None
\* and '' are both false
PreviousArgument(opponent_argument) ==
    IF opponent_argument.type = "NoneType" \/ opponent_argument.text = <<>>
    THEN OpeningStatement
    ELSE opponent_argument.text

NoPrompt ==
    [template |-> "none", name |-> <<>>, topic |-> PyNone, evidence |-> <<>>,
     previous |-> <<>>]

\* the prompt of AILawyer.make_argument
ArgumentPrompt(lawyer, topic, new_evidence, opponent_argument) ==
    [template |-> "make_argument",
     name     |-> lawyer.name,
     topic    |-> topic,
     evidence |-> new_evidence,
     previous |-> PreviousArgument(opponent_argument)]

\* the prompts of the Judge: no value is put into them
JudgePrompt(template) ==
    [template |-> template, name |-> <<>>, topic |-> PyNone,
     evidence |-> <<>>, previous |-> <<>>]

DirectVerdictPrompt ==
    <<"\n"," "," "," "," "," "," "," "," ","A","n","a","l","y","z","e"," ",
      "i","f"," ","t","h","i","s"," ","m","e","s","s","a","g","e"," ","i",
      "s"," ","a"," ","s","c","a","m","."," ","P","r","o","v","i","d","e",
      " ","e","x","a","c","t","l","y",":","\n"," "," "," "," "," "," "," ",
      " ","1","."," ","V","e","r","d","i","c","t",":"," ","S","C","A","M",
      " ","o","r"," ","N","O","T"," ","A"," ","S","C","A","M","\n"," "," ",
      " "," "," "," "," "," ","2","."," ","O","n","e"," ","s","e","n","t",
      "e","n","c","e"," ","s","u","m","m","a","r","y"," ","e","x","p","l",
      "a","i","n","i","n","g"," ","w","h","y","\n"," "," "," "," "," "," ",
      " "," ","3","."," ","S","i","n","g","l","e"," ","m","o","s","t"," ",
      "i","m","p","o","r","t","a","n","t"," ","e","v","i","d","e","n","c",
      "e"," ","p","o","i","n","t","\n"," "," "," "," "," "," "," "," ","K",
      "e","e","p"," ","i","t"," ","e","x","t","r","e","m","e","l","y"," ",
      "c","o","n","c","i","s","e",".","\n"," "," "," "," "," "," "," "," ">>

AnalyzeDebatePrompt ==
    <<"\n"," "," "," "," "," "," "," "," ","B","a","s","e","d"," ","o","n",
      " ","t","h","e"," ","d","e","b","a","t","e"," ","a","b","o","u","t",
      " ","t","h","i","s"," ","m","e","s","s","a","g","e",","," ","p","r",
      "o","v","i","d","e"," ","e","x","a","c","t","l","y",":","\n"," "," ",
      " "," "," "," "," "," ","1","."," ","V","e","r","d","i","c","t",":",
      " ","S","C","A","M"," ","o","r"," ","N","O","T"," ","A"," ","S","C",
      "A","M","\n"," "," "," "," "," "," "," "," ","2","."," ","O","n","e",
      " ","s","e","n","t","e","n","c","e"," ","s","u","m","m","a","r","y",
      " ","e","x","p","l","a","i","n","i","n","g"," ","w","h","y","\n"," ",
      " "," "," "," "," "," "," ","3","."," ","S","i","n","g","l","e"," ",
      "m","o","s","t"," ","i","m","p","o","r","t","a","n","t"," ","e","v",
      "i","d","e","n","c","e"," ","p","o","i","n","t","\n"," "," "," "," ",
      " "," "," "," ","K","e","e","p"," ","i","t"," ","e","x","t","r","e",
      "m","e","l","y"," ","c","o","n","c","i","s","e",".","\n"," "," "," ",
      " "," "," "," "," ">>

\* the text of a prompt of the Judge
PromptText(prompt_of_judge) ==
    IF prompt_of_judge.template = "direct_verdict" THEN DirectVerdictPrompt
    ELSE IF prompt_of_judge.template = "analyze_debate" THEN AnalyzeDebatePrompt
    ELSE <<>>

(***************************************************************************)
(* The request handlers.  Each worker serves one call at a time: a request *)
(* of /analyze, a call of analyze_message (app.py), a call of              *)
(* Judge.direct_verdict on a new Judge (the call in analyze_message is     *)
(* commented out, app.py 34-43), or a run of start_debate (test.py).       *)
(***************************************************************************)

\* the request workers
Workers == {1, 2}

\* calls begun over a run
MaxCalls == 2

VARIABLES
    rag_store,            \* RAGStore: the stored cases
    pc,                   \* where each worker's call stands
    message,              \* analyze_message's message / direct_verdict's topic
    debate_history,       \* judge.debate_history of the call's Judge
    prosecutor,           \* the prosecutor AILawyer of the call
    defender,             \* the defender AILawyer of the call
    prosecutor_argument,  \* local of analyze_message
    defender_argument,    \* local of analyze_message
    response,             \* the text the judge's generation call returned
    verdict_data,         \* the dict returned by the Judge method
    result,               \* the dict analyze_message returns
    error,                \* the exception that ended the call
    add_case_calls,       \* calls of rag_store.add_case made by the call
    calls,                \* calls begun so far
    completed_runs,       \* Direct and Debate runs that returned a verdict
    store_queries,        \* calls of rag_store.find_similar_cases by the call
    generation_calls,     \* calls of model.generate_content by the call
    search_calls,         \* calls of perform_web_search by the call
    search_errors,        \* searches of the call that failed inside
    prompt,               \* the prompt of the call's last generation call
    opponent_argument,    \* make_argument's parameter at that call
    request,              \* the request of /analyze being served
    status,               \* the HTTP status answered, 0 before the answer
    similar_cases,        \* what find_similar_cases returned (lookup alone)
    round_num,            \* start_debate: rounds completed
    last_argument         \* start_debate: last_argument

vars ==
    <<rag_store, pc, message, debate_history, prosecutor, defender,
      prosecutor_argument, defender_argument, response, verdict_data, result,
      error, add_case_calls, calls, completed_runs, store_queries,
      generation_calls, search_calls, search_errors, prompt,
      opponent_argument, request, status, similar_cases, round_num,
      last_argument>>

\* the state of the endpoint, of the lookup taken alone, of start_debate
endpoint_vars == <<request, status>>

debate_vars == <<round_num, last_argument>>

NoMessage == PyStr(<<>>)

NoLawyer == [name |-> <<>>, evidence |-> <<>>]

ResultKeys == {"message", "verdict", "summary", "evidence", "source"}

NoResult ==
    [keys |-> {}, message |-> NoMessage, verdict |-> <<>>, summary |-> <<>>,
     evidence |-> <<>>, source |-> "none"]

NoRequest == [is_json |-> FALSE, has_message |-> FALSE, message |-> PyNone]

\* AILawyer.__init__
AILawyer(name) == [name |-> name, evidence |-> <<>>]

\* AILawyer.gather_evidence: self.evidence.extend(results)
gather_evidence(lawyer, results) ==
    [lawyer EXCEPT !.evidence = lawyer.evidence \o results]

\* the dict analyze_message returns
Result(msg, verdict, source) ==
    [keys |-> ResultKeys, message |-> msg, verdict |-> verdict.verdict,
     summary |-> verdict.summary, evidence |-> verdict.evidence,
     source |-> source]

Init ==
    /\ rag_store = <<>>
    /\ pc = [w \in Workers |-> "idle"]
    /\ message = [w \in Workers |-> NoMessage]
    /\ debate_history = [w \in Workers |-> <<>>]
    /\ prosecutor = [w \in Workers |-> NoLawyer]
    /\ defender = [w \in Workers |-> NoLawyer]
    /\ prosecutor_argument = [w \in Workers |-> <<>>]
    /\ defender_argument = [w \in Workers |-> <<>>]
    /\ response = [w \in Workers |-> <<>>]
    /\ verdict_data = [w \in Workers |-> EmptyDict]
    /\ result = [w \in Workers |-> NoResult]
    /\ error = [w \in Workers |-> "none"]
    /\ add_case_calls = [w \in Workers |-> 0]
    /\ calls = 0
    /\ completed_runs = 0
    /\ store_queries = [w \in Workers |-> 0]
    /\ generation_calls = [w \in Workers |-> 0]
    /\ search_calls = [w \in Workers |-> 0]
    /\ search_errors = [w \in Workers |-> 0]
    /\ prompt = [w \in Workers |-> NoPrompt]
    /\ opponent_argument = [w \in Workers |-> PyNone]
    /\ request = [w \in Workers |-> NoRequest]
    /\ status = [w \in Workers |-> 0]
    /\ similar_cases = <<>>
    /\ round_num = 0
    /\ last_argument = PyNone

\* one Judge built for the whole module and held by every call
judge_of_module(w) == 1

\* judge = Judge(...), a local of analyze_message: the Judge object the call
\* of worker w holds, built by that call and named here by its worker
judge(w) == w

\* the locals of analyze_message, which exist while the call runs; the
\* call's Judge starts with an empty debate_history
NoLocals(w) ==
    /\ debate_history' = [debate_history EXCEPT ![judge(w)] = <<>>]
    /\ prosecutor' = [prosecutor EXCEPT ![w] = NoLawyer]
    /\ defender' = [defender EXCEPT ![w] = NoLawyer]
    /\ prosecutor_argument' = [prosecutor_argument EXCEPT ![w] = <<>>]
    /\ defender_argument' = [defender_argument EXCEPT ![w] = <<>>]

\* nothing has been returned, raised, stored or called by the call
NoOutcome(w) ==
    /\ response' = [response EXCEPT ![w] = <<>>]
    /\ verdict_data' = [verdict_data EXCEPT ![w] = EmptyDict]
    /\ result' = [result EXCEPT ![w] = NoResult]
    /\ error' = [error EXCEPT ![w] = "none"]
    /\ add_case_calls' = [add_case_calls EXCEPT ![w] = 0]
    /\ store_queries' = [store_queries EXCEPT ![w] = 0]
    /\ generation_calls' = [generation_calls EXCEPT ![w] = 0]
    /\ search_calls' = [search_calls EXCEPT ![w] = 0]
    /\ search_errors' = [search_errors EXCEPT ![w] = 0]
    /\ prompt' = [prompt EXCEPT ![w] = NoPrompt]
    /\ opponent_argument' = [opponent_argument EXCEPT ![w] = PyNone]

\* analyze_message is entered: a dict is replaced by its 'text' ('' when it
\* has none), and the Judge is built with an empty debate_history
EnterAnalyze(w, m) ==
    /\ pc[w] = "idle"
    /\ calls < MaxCalls
    /\ calls' = calls + 1
    /\ message' = [message EXCEPT ![w] =
                       IF IsDict(m) THEN PyStr(m.text) ELSE m]
    /\ pc' = [pc EXCEPT ![w] = "check"]
    /\ NoLocals(w)
    /\ NoOutcome(w)
    /\ UNCHANGED <<rag_store, completed_runs, similar_cases, debate_vars>>

\* analyze_message is called
BeginAnalyze(w, m) ==
    /\ EnterAnalyze(w, m)
    /\ UNCHANGED endpoint_vars

\* a failure that leaves a case of the failed call in the store
RaiseStoringCase(w, exception, text) ==
    /\ error' = [error EXCEPT ![w] = exception]
    /\ response' = [response EXCEPT ![w] = text]
    /\ pc' = [pc EXCEPT ![w] = "failed"]
    /\ NoLocals(w)
    /\ rag_store' = store_case(rag_store, message[w], EmptyDict,
                                debate_history[judge(w)])
    /\ UNCHANGED <<message, verdict_data, result, add_case_calls, calls,
                   completed_runs, endpoint_vars, similar_cases, debate_vars>>

\* the call ends with an exception, text being what the judge's generation
\* call had returned: nothing is returned or stored, and the locals are gone
Raise(w, exception, text) ==
    /\ error' = [error EXCEPT ![w] = exception]
    /\ response' = [response EXCEPT ![w] = text]
    /\ pc' = [pc EXCEPT ![w] = "failed"]
    /\ NoLocals(w)
    /\ UNCHANGED <<rag_store, message, verdict_data, result, add_case_calls,
                   calls, completed_runs, endpoint_vars, similar_cases,
                   debate_vars>>

\* a cached return that first builds the two lawyers
CachedReturnAfterLawyers(w, cached_verdict) ==
    /\ verdict_data' = [verdict_data EXCEPT ![w] = cached_verdict]
    /\ result' = [result EXCEPT ![w] =
                      Result(message[w], cached_verdict, "cached")]
    /\ pc' = [pc EXCEPT ![w] = "done"]
    /\ prosecutor' = [prosecutor EXCEPT ![w] = AILawyer(ProsecutorName)]
    /\ defender' = [defender EXCEPT ![w] = AILawyer(DefenderName)]
    /\ UNCHANGED <<debate_history, prosecutor_argument, defender_argument,
                   response, error>>

\* the return of analyze_message on a hit, app.py 25-32
CachedReturn(w, cached_verdict) ==
    /\ verdict_data' = [verdict_data EXCEPT ![w] = cached_verdict]
    /\ result' = [result EXCEPT ![w] =
                      Result(message[w], cached_verdict, "cached")]
    /\ pc' = [pc EXCEPT ![w] = "done"]
    /\ UNCHANGED <<prosecutor, defender, debate_history, prosecutor_argument,
                   defender_argument, response, error>>

\* judge.check_similar_case(message), the cached return, and on a miss the
\* construction of the two lawyers
CheckSimilarCase(w) ==
    /\ pc[w] = "check"
    /\ \E found \in {check_similar_case(rag_store, message[w])} :
          /\ store_queries' = [store_queries EXCEPT ![w] =
                 store_queries[w] + (IF found.queried THEN 1 ELSE 0)]
          /\ IF found.raised
             THEN /\ Raise(w, "KeyError", <<>>)
                  /\ UNCHANGED <<generation_calls, search_calls, search_errors,
                                 prompt, opponent_argument>>
             ELSE /\ IF found.has_similar
                     THEN CachedReturn(w, found.verdict)
                     ELSE /\ verdict_data' =
                                 [verdict_data EXCEPT ![w] = found.verdict]
                          /\ prosecutor' = [prosecutor EXCEPT ![w] =
                                                AILawyer(ProsecutorName)]
                          /\ defender' = [defender EXCEPT ![w] =
                                              AILawyer(DefenderName)]
                          /\ pc' = [pc EXCEPT ![w] = "prosecute"]
                          /\ UNCHANGED <<result, debate_history,
                                         prosecutor_argument,
                                         defender_argument, response, error>>
                  /\ UNCHANGED <<rag_store, message, add_case_calls, calls,
                                 completed_runs, generation_calls,
                                 search_calls, search_errors, prompt,
                                 opponent_argument, endpoint_vars,
                                 similar_cases, debate_vars>>

\* lawyer.make_argument(topic, opponent) of the call's lawyer of that role, and
\* judge.record_argument, ending at pc next: the web search, which returns
\* [] when it fails, then the generation call, which may raise
MakeArgument(w, role, lawyer, opponent, texts, searches, next) ==
    \E outcome \in searches, reply \in GenerationOutcomes(texts) :
    \E searched \in {perform_web_search(outcome)} :
       /\ search_calls' = [search_calls EXCEPT ![w] = search_calls[w] + 1]
       /\ search_errors' = [search_errors EXCEPT ![w] =
              search_errors[w] + (IF outcome.ok THEN 0 ELSE 1)]
       /\ UNCHANGED store_queries
       /\ IF searched.raised
          THEN /\ Raise(w, "search", <<>>)
               /\ UNCHANGED <<generation_calls, prompt, opponent_argument>>
          ELSE /\ generation_calls' =
                      [generation_calls EXCEPT ![w] = generation_calls[w] + 1]
               /\ opponent_argument' =
                      [opponent_argument EXCEPT ![w] = opponent]
               /\ prompt' = [prompt EXCEPT ![w] =
                      ArgumentPrompt(lawyer, message[w], searched.results,
                                     opponent)]
               /\ IF ~reply.ok THEN Raise(w, "generation", <<>>)
                  ELSE /\ IF role = "prosecutor"
                          THEN /\ prosecutor' = [prosecutor EXCEPT ![w] =
                                      gather_evidence(lawyer, searched.results)]
                               /\ prosecutor_argument' =
                                      [prosecutor_argument EXCEPT ![w] = reply.text]
                               /\ UNCHANGED <<defender, defender_argument>>
                          ELSE /\ defender' = [defender EXCEPT ![w] =
                                      gather_evidence(lawyer, searched.results)]
                               /\ defender_argument' =
                                      [defender_argument EXCEPT ![w] = reply.text]
                               /\ UNCHANGED <<prosecutor, prosecutor_argument>>
                       /\ debate_history' = [debate_history EXCEPT ![judge(w)] =
                              record_argument(debate_history[judge(w)],
                                              lawyer.name, reply.text)]
                       /\ pc' = [pc EXCEPT ![w] = next]
                       /\ UNCHANGED <<rag_store, message, response,
                                      verdict_data, result, error,
                                      add_case_calls, calls, completed_runs,
                                      endpoint_vars, similar_cases>>

\* prosecutor.make_argument(message) and judge.record_argument, app.py 59-60
ProsecutorArgumentFrom(w, searches) ==
    /\ pc[w] = "prosecute"
    /\ MakeArgument(w, "prosecutor", prosecutor[w], PyNone, Arguments,
                    searches, "defend")
    /\ UNCHANGED debate_vars

ProsecutorArgument(w) == ProsecutorArgumentFrom(w, SearchOutcomes)

\* a defender that argues without the prosecutor's argument
DefenderArgumentWithoutOpponent(w, searches) ==
    /\ pc[w] = "defend"
    /\ MakeArgument(w, "defender", defender[w], PyNone, Rebuttals, searches,
                    "judge")
    /\ UNCHANGED debate_vars

\* defender.make_argument(message, prosecutor_argument) and
\* judge.record_argument, app.py 62-63
DefenderArgumentFrom(w, searches) ==
    /\ pc[w] = "defend"
    /\ MakeArgument(w, "defender", defender[w],
                    PyStr(prosecutor_argument[w]), Rebuttals, searches, "judge")
    /\ UNCHANGED debate_vars

DefenderArgument(w) == DefenderArgumentFrom(w, SearchOutcomes)

\* the generation call of the judge is made with the prompt of template
JudgeGeneration(w, template) ==
    /\ generation_calls' =
           [generation_calls EXCEPT ![w] = generation_calls[w] + 1]
    /\ prompt' = [prompt EXCEPT ![w] = JudgePrompt(template)]
    /\ UNCHANGED <<opponent_argument, store_queries, search_calls,
                   search_errors>>

\* the call raises before any collaborator is called
NoCollaborator ==
    UNCHANGED <<generation_calls, prompt, opponent_argument, store_queries,
                search_calls, search_errors>>

\* judge.analyze_debate(message) and the return of analyze_message, the
\* generation call answering with one of texts: topic[:100] for the log,
\* the generation call, the parse, _store_case
AnalyzeDebateFrom(w, texts) ==
    /\ pc[w] = "judge"
    /\ IF ~Sliceable(message[w])
       THEN Raise(w, "TypeError", <<>>) /\ NoCollaborator
       ELSE
       /\ JudgeGeneration(w, "analyze_debate")
       /\ \E reply \in GenerationOutcomes(texts) :
          IF ~reply.ok THEN Raise(w, "generation", <<>>)
          ELSE \E parsed \in {ParsedResponse[reply.text]} :
                   IF parsed.raised THEN Raise(w, "IndexError", reply.text)
                   ELSE /\ response' = [response EXCEPT ![w] = reply.text]
                        /\ verdict_data' =
                               [verdict_data EXCEPT ![w] = parsed.verdict_data]
                        /\ \E stored \in {store_case(rag_store, message[w],
                                                     parsed.verdict_data,
                                                     debate_history[judge(w)])} :
                              /\ rag_store' = stored
                              /\ add_case_calls' = [add_case_calls EXCEPT ![w] =
                                     add_case_calls[w]
                                         + (Len(stored) - Len(rag_store))]
                        /\ completed_runs' = completed_runs + 1
                        /\ result' = [result EXCEPT ![w] =
                               Result(message[w], parsed.verdict_data, "debate")]
                        /\ pc' = [pc EXCEPT ![w] = "done"]
                        /\ NoLocals(w)
                        /\ UNCHANGED <<message, error, calls, endpoint_vars,
                                       similar_cases, debate_vars>>

AnalyzeDebate(w) == AnalyzeDebateFrom(w, Responses)

\* Judge.direct_verdict is called on a new Judge
BeginDirect(w, topic) ==
    /\ pc[w] = "idle"
    /\ calls < MaxCalls
    /\ calls' = calls + 1
    /\ message' = [message EXCEPT ![w] = topic]
    /\ pc' = [pc EXCEPT ![w] = "direct"]
    /\ NoLocals(w)
    /\ NoOutcome(w)
    /\ UNCHANGED <<rag_store, completed_runs, endpoint_vars, similar_cases,
                   debate_vars>>

\* Judge.direct_verdict(topic), the generation call answering with one of
\* texts: topic[:100] for the log, the generation call, the parse, add_case
DirectVerdictFrom(w, texts) ==
    /\ pc[w] = "direct"
    /\ IF ~Sliceable(message[w])
       THEN Raise(w, "TypeError", <<>>) /\ NoCollaborator
       ELSE
       /\ JudgeGeneration(w, "direct_verdict")
       /\ \E reply \in GenerationOutcomes(texts) :
          IF ~reply.ok THEN Raise(w, "generation", <<>>)
          ELSE \E parsed \in {ParsedResponse[reply.text]} :
                   IF parsed.raised THEN Raise(w, "IndexError", reply.text)
                   ELSE /\ response' = [response EXCEPT ![w] = reply.text]
                        /\ verdict_data' =
                               [verdict_data EXCEPT ![w] = parsed.verdict_data]
                        /\ \E stored \in {add_case(rag_store,
                               DirectCase(message[w], parsed.verdict_data))} :
                              /\ rag_store' = stored
                              /\ add_case_calls' = [add_case_calls EXCEPT ![w] =
                                     add_case_calls[w]
                                         + (Len(stored) - Len(rag_store))]
                        /\ completed_runs' = completed_runs + 1
                        /\ pc' = [pc EXCEPT ![w] = "returned"]
                        /\ NoLocals(w)
                        /\ UNCHANGED <<message, result, error, calls,
                                       endpoint_vars, similar_cases,
                                       debate_vars>>

DirectVerdict(w) == DirectVerdictFrom(w, Responses)

\* the caller has the outcome; the worker is free for the next call
Finish(w) ==
    /\ pc[w] \in {"done", "returned", "failed", "responded", "rejected",
                  "printed"}
    /\ pc' = [pc EXCEPT ![w] = "idle"]
    /\ message' = [message EXCEPT ![w] = NoMessage]
    /\ request' = [request EXCEPT ![w] = NoRequest]
    /\ status' = [status EXCEPT ![w] = 0]
    /\ round_num' = 0
    /\ last_argument' = PyNone
    /\ NoLocals(w)
    /\ NoOutcome(w)
    /\ UNCHANGED <<rag_store, calls, completed_runs, similar_cases>>

\* the requests of app.py, served by the workers
Next ==
    \E w \in Workers :
        \/ \E m \in Messages : BeginAnalyze(w, m)
        \/ CheckSimilarCase(w)
        \/ ProsecutorArgument(w)
        \/ DefenderArgument(w)
        \/ AnalyzeDebate(w)
        \/ Finish(w)

Spec == Init /\ [][Next]_vars

\* the requests of app.py, and the calls of Judge.direct_verdict
NextJudge ==
    \E w \in Workers :
        \/ \E m \in Messages : BeginAnalyze(w, m)
        \/ CheckSimilarCase(w)
        \/ ProsecutorArgument(w)
        \/ DefenderArgument(w)
        \/ AnalyzeDebate(w)
        \/ \E topic \in DirectTopics : BeginDirect(w, topic)
        \/ DirectVerdict(w)
        \/ Finish(w)

SpecJudge == Init /\ [][NextJudge]_vars

\* the judge's model answers with any of ResponseShapes
AnalyzeAnyShape(w) ==
    AnalyzeDebateFrom(w, ResponseShapes \cup PromptedResponses)

DirectAnyShape(w) ==
    DirectVerdictFrom(w, ResponseShapes \cup PromptedResponses)

\* direct_verdict is called while nothing is stored
BeginDirectFirst(w, topic) == rag_store = <<>> /\ BeginDirect(w, topic)

\* one worker: the verdict of a response of every shape, and the lookups
\* that find the stored case
NextParse ==
    \/ \E m \in {PyStr(MsgLottery), PyStr(Msg49)} : BeginAnalyze(1, m)
    \/ CheckSimilarCase(1)
    \/ ProsecutorArgument(1)
    \/ DefenderArgument(1)
    \/ AnalyzeAnyShape(1)
    \/ \E topic \in DirectTopics : BeginDirectFirst(1, topic)
    \/ DirectAnyShape(1)
    \/ Finish(1)

SpecParse == Init /\ [][NextParse]_vars

(***************************************************************************)
(* The /analyze endpoint (app.py analyze_endpoint).  A request is whether  *)
(* it is JSON, whether its object has 'message', and the value of it.      *)
(***************************************************************************)

\* the values a client may send as 'message'
RequestMessages ==
    {PyStr(MsgLottery), PyStr(MsgBlank), PyDict(MsgLottery),
     PyDictWithoutText, PyInt, PyList}

Requests ==
    {[is_json |-> FALSE, has_message |-> FALSE, message |-> PyNone],
     [is_json |-> TRUE, has_message |-> FALSE, message |-> PyNone]}
        \cup {[is_json |-> TRUE, has_message |-> TRUE, message |-> m] :
                  m \in RequestMessages}

\* the checks of analyze_endpoint that answer 400
Rejected(req) ==
    \/ ~req.is_json
    \/ ~req.has_message
    \/ IsDict(req.message) /\ ~HasText(req.message)

\* analyze_endpoint up to its call of analyze_message
AnalyzeEndpoint(w, req) ==
    /\ request' = [request EXCEPT ![w] = req]
    /\ IF Rejected(req)
       THEN /\ pc[w] = "idle"
            /\ calls < MaxCalls
            /\ calls' = calls + 1
            /\ status' = [status EXCEPT ![w] = 400]
            /\ pc' = [pc EXCEPT ![w] = "rejected"]
            /\ UNCHANGED <<rag_store, message, debate_history, prosecutor,
                           defender, prosecutor_argument, defender_argument,
                           response, verdict_data, result, error,
                           add_case_calls, completed_runs, store_queries,
                           generation_calls, search_calls, search_errors,
                           prompt, opponent_argument, similar_cases,
                           debate_vars>>
       ELSE /\ EnterAnalyze(w, req.message)
            /\ UNCHANGED status

\* jsonify(result), or the 500 of an exception that nothing caught
Respond(w) ==
    /\ pc[w] \in {"done", "failed"}
    /\ status' = [status EXCEPT ![w] = IF pc[w] = "done" THEN 200 ELSE 500]
    /\ pc' = [pc EXCEPT ![w] = "responded"]
    /\ UNCHANGED <<rag_store, message, debate_history, prosecutor, defender,
                   prosecutor_argument, defender_argument, response,
                   verdict_data, result, error, add_case_calls, calls,
                   completed_runs, store_queries, generation_calls,
                   search_calls, search_errors, prompt, opponent_argument,
                   request, similar_cases, debate_vars>>

\* the response has been sent
EndRequest(w) == pc[w] \in {"responded", "rejected"} /\ Finish(w)

\* the requests of /analyze, one at a time
NextEndpoint ==
    \/ \E req \in Requests : AnalyzeEndpoint(1, req)
    \/ CheckSimilarCase(1)
    \/ ProsecutorArgument(1)
    \/ DefenderArgument(1)
    \/ AnalyzeDebate(1)
    \/ Respond(1)
    \/ EndRequest(1)

SpecEndpoint == Init /\ [][NextEndpoint]_vars

(***************************************************************************)
(* The lookup taken alone: check_similar_case from 'if similar_cases:' on, *)
(* applied to what find_similar_cases may return, a record of a stored     *)
(* case possibly without its 'similarity' or its 'verdict'.                *)
(***************************************************************************)

\* a verdict as direct_verdict and analyze_debate store it
StoredVerdict(label) ==
    [verdict |-> label, summary |-> FallbackSummary,
     evidence |-> <<FallbackEvidence>>]

\* the records find_similar_cases may return
LookupRecords ==
    {[keys       |-> {"topic"} \cup sk \cup vk,
      topic      |-> PyStr(MsgLottery),
      verdict    |-> v,
      similarity |-> sim] :
         sk \in {{}, {"similarity"}}, vk \in {{}, {"verdict"}},
         v \in {EmptyDict, StoredVerdict(SCAM), StoredVerdict(NOT_A_SCAM)},
         sim \in {Threshold, Threshold + 1}}

\* most records in a lookup's result
MaxRecords == 2

RECURSIVE LookupsOf(_)
LookupsOf(n) ==
    IF n = 0 THEN {<<>>}
    ELSE {<<r>> \o l : r \in LookupRecords, l \in LookupsOf(n - 1)}

LookupResults == UNION {LookupsOf(n) : n \in 0..MaxRecords}

InitLookup ==
    /\ rag_store = <<>>
    /\ pc = [w \in Workers |-> "idle"]
    /\ message = [w \in Workers |-> NoMessage]
    /\ debate_history = [w \in Workers |-> <<>>]
    /\ prosecutor = [w \in Workers |-> NoLawyer]
    /\ defender = [w \in Workers |-> NoLawyer]
    /\ prosecutor_argument = [w \in Workers |-> <<>>]
    /\ defender_argument = [w \in Workers |-> <<>>]
    /\ response = [w \in Workers |-> <<>>]
    /\ verdict_data = [w \in Workers |-> EmptyDict]
    /\ result = [w \in Workers |-> NoResult]
    /\ error = [w \in Workers |-> "none"]
    /\ add_case_calls = [w \in Workers |-> 0]
    /\ calls = 0
    /\ completed_runs = 0
    /\ store_queries = [w \in Workers |-> 0]
    /\ generation_calls = [w \in Workers |-> 0]
    /\ search_calls = [w \in Workers |-> 0]
    /\ search_errors = [w \in Workers |-> 0]
    /\ prompt = [w \in Workers |-> NoPrompt]
    /\ opponent_argument = [w \in Workers |-> PyNone]
    /\ request = [w \in Workers |-> NoRequest]
    /\ status = [w \in Workers |-> 0]
    /\ similar_cases \in LookupResults
    /\ round_num = 0
    /\ last_argument = PyNone

\* judge.py 39-55 on similar_cases: a hit, (False, {}), or KeyError
LookupDecision ==
    /\ pc[1] = "idle"
    /\ \E found \in {MatchDecision(similar_cases)} :
          IF found.raised
          THEN Raise(1, "KeyError", <<>>)
          ELSE /\ verdict_data' = [verdict_data EXCEPT ![1] = found.verdict]
               /\ pc' = [pc EXCEPT ![1] =
                             IF found.has_similar THEN "hit" ELSE "miss"]
               /\ UNCHANGED <<rag_store, message, debate_history, prosecutor,
                              defender, prosecutor_argument, defender_argument,
                              response, result, error, add_case_calls, calls,
                              completed_runs, endpoint_vars, similar_cases,
                              debate_vars>>
    /\ UNCHANGED <<store_queries, generation_calls, search_calls,
                   search_errors, prompt, opponent_argument>>

NextLookup == LookupDecision

SpecLookup == InitLookup /\ [][NextLookup]_vars

(***************************************************************************)
(* Searches that fail inside perform_web_search.                           *)
(***************************************************************************)

ProsecutorAnySearch(w) == ProsecutorArgumentFrom(w, SearchOutcomesWithErrors)

DefenderAnySearch(w) == DefenderArgumentFrom(w, SearchOutcomesWithErrors)

\* the requests of app.py, the searches failing or not
NextSearch ==
    \/ \E m \in {PyStr(MsgLottery), PyStr(Msg50)} : BeginAnalyze(1, m)
    \/ CheckSimilarCase(1)
    \/ ProsecutorAnySearch(1)
    \/ DefenderAnySearch(1)
    \/ AnalyzeDebate(1)
    \/ Finish(1)

SpecSearch == Init /\ [][NextSearch]_vars

(***************************************************************************)
(* start_debate (test.py): rounds rounds of a prosecutor's and a           *)
(* defender's argument, then the verdict of test.py's Judge, which returns *)
(* the response text and stores nothing.  Run by worker 1.                 *)
(***************************************************************************)

DebateProsecutorName ==
    <<"P","r","o","s","e","c","u","t","o","r"," ","T","h","o","m","p","s",
      "o","n">>

DebateDefenderName ==
    <<"D","e","f","e","n","d","e","r"," ","R","o","d","r","i","g","u","e",
      "z">>

TopicJobOffer ==
    <<"J","o","b"," ","o","f","f","e","r"," ","e","m","a","i","l"," ","s",
      "c","a","m","s">>

DebateTopics == {PyStr(TopicJobOffer)}

\* rounds = 3
rounds == 3

\* start_debate up to its loop
StartDebate(topic) ==
    /\ pc[1] = "idle"
    /\ calls < MaxCalls
    /\ calls' = calls + 1
    /\ message' = [message EXCEPT ![1] = topic]
    /\ prosecutor' = [prosecutor EXCEPT ![1] = AILawyer(DebateProsecutorName)]
    /\ defender' = [defender EXCEPT ![1] = AILawyer(DebateDefenderName)]
    /\ debate_history' = [debate_history EXCEPT ![1] = <<>>]
    /\ prosecutor_argument' = [prosecutor_argument EXCEPT ![1] = <<>>]
    /\ defender_argument' = [defender_argument EXCEPT ![1] = <<>>]
    /\ round_num' = 0
    /\ last_argument' = PyNone
    /\ pc' = [pc EXCEPT ![1] = "prosecutor_turn"]
    /\ NoOutcome(1)
    /\ UNCHANGED <<rag_store, completed_runs, endpoint_vars, similar_cases>>

\* a defender's turn that rebuts the first argument of the debate
OpponentFirst(history, last) ==
    IF history = <<>> THEN last ELSE PyStr(history[1].argument)

\* the opponent_argument passed in a turn: last_argument
Opponent(history, last) == last

\* the prosecutor's turn of a round, test.py 178-181
ProsecutorTurn ==
    /\ pc[1] = "prosecutor_turn"
    /\ MakeArgument(1, "prosecutor", prosecutor[1],
                    Opponent(debate_history[1], last_argument), Arguments,
                    SearchOutcomes, "defender_turn")
    /\ IF pc'[1] = "failed" THEN UNCHANGED debate_vars
       ELSE /\ last_argument' = PyStr(prosecutor_argument'[1])
            /\ UNCHANGED round_num

\* the defender's turn of a round, test.py 187-190, and the loop's test
DefenderTurn ==
    /\ pc[1] = "defender_turn"
    /\ MakeArgument(1, "defender", defender[1],
                    Opponent(debate_history[1], last_argument), Arguments,
                    SearchOutcomes,
                    IF round_num + 1 < rounds THEN "prosecutor_turn"
                    ELSE "verdict")
    /\ IF pc'[1] = "failed" THEN UNCHANGED debate_vars
       ELSE /\ last_argument' = PyStr(defender_argument'[1])
            /\ round_num' = round_num + 1

\* judge.analyze_debate(topic) of test.py 125-145, and the print
JudgeVerdict ==
    /\ pc[1] = "verdict"
    /\ generation_calls' =
           [generation_calls EXCEPT ![1] = generation_calls[1] + 1]
    /\ prompt' = [prompt EXCEPT ![1] =
           [JudgePrompt("debate_verdict") EXCEPT !.topic = message[1]]]
    /\ UNCHANGED <<opponent_argument, store_queries, search_calls,
                   search_errors>>
    /\ \E reply \in GenerationOutcomes(Responses) :
          IF ~reply.ok THEN Raise(1, "generation", <<>>)
          ELSE /\ response' = [response EXCEPT ![1] = reply.text]
               /\ pc' = [pc EXCEPT ![1] = "printed"]
               /\ UNCHANGED <<rag_store, message, debate_history, prosecutor,
                              defender, prosecutor_argument, defender_argument,
                              verdict_data, result, error, add_case_calls,
                              calls, completed_runs, endpoint_vars,
                              similar_cases, debate_vars>>

NextDebate ==
    \/ \E topic \in DebateTopics : StartDebate(topic)
    \/ ProsecutorTurn
    \/ DefenderTurn
    \/ JudgeVerdict
    \/ Finish(1)

SpecDebate == Init /\ [][NextDebate]_vars

(***************************************************************************)
(* Properties                                                              *)
(***************************************************************************)

\* analyze_message has returned its dict
Returned(w) == pc[w] = "done"

\* C1: a message that misses the cache is judged by the Direct tier (source
\* "direct") when it has fewer than 50 whitespace-separated words, and by
\* the Debate tier (source "debate") when it has 50 or more.
C1_TierByWordCount ==
    \A w \in Workers :
        (Returned(w) /\ result[w].source # "cached")
            => result[w].source =
                   IF WordCount(message[w]) < 50 THEN "direct" ELSE "debate"

\* C2: the label returned on a cache hit is the label stored with the case
\* that was hit.
C2_CachedLabelIsStoredLabel ==
    [][\A w \in Workers :
          (pc[w] = "check" /\ pc'[w] = "done")
              => result'[w].verdict =
                     find_similar_cases(rag_store, message[w])[1].verdict.verdict
      ]_vars

\* C3: for a non-blank text, check_similar_case reports a hit exactly when
\* some stored case, hence the best match, has a similarity strictly above
\* 0.65; at 0.65 or below, or with nothing stored, it returns (False, {}).
C3_HitOnlyAboveThreshold ==
    [][\A w \in Workers :
          (/\ pc[w] = "check"
           /\ pc'[w] # "check"
           /\ IsStr(message[w])
           /\ \E i \in 1..Len(message[w].text) :
                  message[w].text[i] \notin Whitespace)
              => IF \E i \in 1..Len(rag_store) :
                        Similarity(message[w], rag_store[i].topic) > 6500000
                 THEN /\ pc'[w] = "done"
                      /\ result'[w].source = "cached"
                      /\ verdict_data'[w] # EmptyDict
                      /\ verdict_data'[w].verdict \in {SCAM, NOT_A_SCAM}
                 ELSE /\ pc'[w] = "prosecute"
                      /\ result'[w] = NoResult
                      /\ verdict_data'[w] = EmptyDict
      ]_vars

\* a lookup whose best match scored exactly 0.65 went on to the debate
C3_MissAtThreshold ==
    \E w \in Workers :
        /\ pc[w] = "prosecute"
        /\ message[w] = PyStr(MsgLottery)
        /\ completed_runs = 1
        /\ Len(rag_store) = 1
        /\ rag_store[1].topic = PyStr(Msg50)
        /\ Similarity(message[w], rag_store[1].topic) = 6500000
        /\ \A v \in Workers \ {w} : pc[v] = "idle"

\* C4: when a case with the very text of the message is stored, the lookup
\* of analyze_message hits: the call returns source "cached", and neither
\* runs a tier nor stores a case.
C4_SameTextIsCached ==
    [][\A w \in Workers :
          (/\ pc[w] = "check"
           /\ pc'[w] # "check"
           /\ IsStr(message[w])
           /\ \E i \in 1..Len(message[w].text) :
                  message[w].text[i] \notin Whitespace
           /\ \E i \in 1..Len(rag_store) : rag_store[i].topic = message[w])
              => /\ pc'[w] = "done"
                 /\ result'[w].source = "cached"
                 /\ result'[w].message = message[w]
                 /\ rag_store' = rag_store
                 /\ completed_runs' = completed_runs
      ]_vars

\* the second call for a text returned the cached verdict of the first
C4_SecondCallCached ==
    \E w \in Workers :
        /\ Returned(w)
        /\ result[w].source = "cached"
        /\ calls = 2
        /\ Len(rag_store) = 1
        /\ rag_store[1].topic = message[w]

\* C5: the store holds one case for each Direct or Debate run that returned
\* its verdict: such a call made one add_case call, with the verdict it
\* returns, and every other call made none.
C5_OneCasePerCompletedRun ==
    /\ Len(rag_store) = completed_runs
    /\ \A w \in Workers :
          IF pc[w] = "returned" \/ (Returned(w) /\ result[w].source = "debate")
          THEN /\ add_case_calls[w] = 1
               /\ \E i \in 1..Len(rag_store) :
                      /\ rag_store[i].topic = message[w]
                      /\ rag_store[i].verdict = verdict_data[w]
          ELSE add_case_calls[w] = 0

\* a Direct run and a Debate run have completed, and two cases are stored
C5_TwoRunsTwoCases ==
    /\ completed_runs = 2
    /\ Len(rag_store) = 2
    /\ \E i, j \in 1..2 :
          /\ "key_evidence" \in rag_store[i].keys
          /\ "key_evidence" \notin rag_store[j].keys

\* C6: a call that ends because a generation call failed returns nothing
\* and leaves the store as it was; the store changes only in the step that
\* returns a Debate verdict.
C6_FailedGenerationStoresNothing ==
    [][/\ \A w \in Workers :
             (pc[w] # "failed" /\ pc'[w] = "failed" /\ error'[w] = "generation")
                 => /\ rag_store' = rag_store
                    /\ completed_runs' = completed_runs
                    /\ add_case_calls'[w] = 0
                    /\ result'[w] = NoResult
       /\ rag_store' # rag_store
             => \E w \in Workers :
                    /\ pc[w] = "judge"
                    /\ pc'[w] = "done"
                    /\ result'[w].source = "debate"
      ]_vars

\* a call has failed on a generation call while a case was stored
C6_FailedCall ==
    \E w \in Workers :
        /\ pc[w] = "failed"
        /\ error[w] = "generation"
        /\ add_case_calls[w] = 0
        /\ Len(rag_store) = 1

\* C7: direct_verdict and analyze_debate never end with an exception of the
\* parse, whatever text the generation call returned.
C7_ParseNeverRaises ==
    \A w \in Workers : pc[w] = "failed" => error[w] = "generation"

\* C8: the label of a Direct or Debate verdict is SCAM exactly when the
\* first non-blank line of the response has the letters s, c, a, m in a row,
\* in either case; the other lines do not count.
C8_LabelFromFirstLine ==
    \A w \in Workers :
        (pc[w] = "returned" \/ (Returned(w) /\ result[w].source = "debate"))
            => LET text == response[w]
                   NonBlank == {i \in 1..Len(text) : text[i] \notin Whitespace}
                   p == CHOOSE i \in NonBlank : \A j \in NonBlank : i <= j
                   first == CHOOSE i \in 1..p :
                                /\ i = 1 \/ text[i - 1] = "\n"
                                /\ \A j \in i..p : text[j] # "\n"
                   last == CHOOSE i \in p..Len(text) :
                               /\ i = Len(text) \/ text[i + 1] = "\n"
                               /\ \A j \in p..i : text[j] # "\n"
                   named == \E i \in first..(last - 3) :
                                /\ text[i] \in {"s", "S"}
                                /\ text[i + 1] \in {"c", "C"}
                                /\ text[i + 2] \in {"a", "A"}
                                /\ text[i + 3] \in {"m", "M"}
                   label == IF named THEN SCAM ELSE NOT_A_SCAM
               IN  /\ NonBlank # {}
                   /\ verdict_data[w].verdict = label
                   /\ Returned(w) => result[w].verdict = label

\* a response that names a scam on a later line only was labelled NOT A SCAM
C8_LaterLineIgnored ==
    \E w \in Workers :
        /\ Returned(w)
        /\ result[w].source = "debate"
        /\ result[w].verdict = NOT_A_SCAM
        /\ Contains(Lower(response[w]), scam)

\* C9: every dict that analyze_message returns has a non-empty summary and
\* a non-empty evidence list of non-empty strings: the fixed strings on a
\* cache hit, both fallbacks for a response of one non-blank line, and the
\* fallback evidence alone for a response of two.
C9_SummaryAndEvidence ==
    \A w \in Workers :
        Returned(w)
            => /\ result[w].summary # <<>>
               /\ result[w].evidence # <<>>
               /\ \A k \in 1..Len(result[w].evidence) :
                      result[w].evidence[k] # <<>>
               /\ result[w].source = "cached"
                      => /\ result[w].summary = CachedSummary
                         /\ Len(result[w].evidence) = 1
               /\ result[w].source # "cached"
                      => LET lines == ResponseLines(response[w])
                         IN  /\ Len(lines) = 1
                                    => /\ result[w].summary = FallbackSummary
                                       /\ result[w].evidence = <<FallbackEvidence>>
                             /\ Len(lines) = 2
                                    => /\ result[w].summary = lines[2]
                                       /\ result[w].evidence = <<FallbackEvidence>>
                             /\ Len(lines) > 2
                                    => /\ result[w].summary = lines[2]
                                       /\ result[w].evidence = <<lines[3]>>

\* a response of two non-blank lines gave its second line as the summary
\* and the fallback evidence
C9_TwoLineResponse ==
    \E w \in Workers :
        /\ Returned(w)
        /\ result[w].source = "debate"
        /\ Len(ResponseLines(response[w])) = 2
        /\ result[w].summary # FallbackSummary
        /\ result[w].evidence = <<FallbackEvidence>>

\* C10: when analyze_debate is called the judge's debate_history has two
\* entries, the prosecutor's then the defender's, and the key_evidence of
\* every case stored by a Debate run is the serialization of such a
\* transcript.
C10_TranscriptOfTwo ==
    /\ \A w \in Workers :
          pc[w] = "judge"
              => /\ Len(debate_history[w]) = 2
                 /\ debate_history[w][1].speaker = ProsecutorName
                 /\ debate_history[w][1].argument = prosecutor_argument[w]
                 /\ debate_history[w][2].speaker = DefenderName
                 /\ debate_history[w][2].argument = defender_argument[w]
    /\ \A i \in 1..Len(rag_store) :
          "key_evidence" \in rag_store[i].keys
              => \E a1 \in Arguments, a2 \in Rebuttals :
                     rag_store[i].key_evidence =
                         JsonDumps(<<[speaker |-> ProsecutorName, argument |-> a1],
                                     [speaker |-> DefenderName, argument |-> a2]>>)

\* a Debate run has returned and its case is stored with the transcript
C10_DebateStored ==
    \E w \in Workers :
        /\ Returned(w)
        /\ result[w].source = "debate"
        /\ \E i \in 1..Len(rag_store) :
              /\ rag_store[i].topic = message[w]
              /\ "key_evidence" \in rag_store[i].keys
              /\ rag_store[i].key_evidence # <<>>

\* C11: for a topic that is not a str, or is empty or blank, the lookup of
\* analyze_message asks the store nothing and returns (False, {}), and the
\* call goes on as after a miss: the two lawyers are built and the
\* prosecutor argues next.
C11_MalformedTopicSkipsLookup ==
    [][\A w \in Workers :
          (/\ pc[w] = "check"
           /\ pc'[w] # "check"
           /\ \/ ~IsStr(message[w])
              \/ \A i \in 1..Len(message[w].text) :
                     message[w].text[i] \in Whitespace)
              => /\ store_queries'[w] = 0
                 /\ verdict_data'[w] = EmptyDict
                 /\ result'[w] = NoResult
                 /\ pc'[w] = "prosecute"
                 /\ prosecutor'[w] = AILawyer(ProsecutorName)
                 /\ defender'[w] = AILawyer(DefenderName)
                 /\ rag_store' = rag_store
      ]_vars

\* a number sent as the message went on to the debate, with a case stored
\* and no question asked of the store
C11_NumberRoutedAsMiss ==
    /\ pc[1] = "prosecute"
    /\ message[1] = PyInt
    /\ store_queries[1] = 0
    /\ rag_store # <<>>

\* C12: when the best record of the lookup has no 'similarity', no
\* 'verdict', or a verdict without its label, check_similar_case raises
\* nothing and returns (False, {}).
C12_AnomalousRecordIsNoMatch ==
    (/\ pc[1] # "idle"
     /\ similar_cases # <<>>
     /\ \/ "similarity" \notin similar_cases[1].keys
        \/ "verdict" \notin similar_cases[1].keys
        \/ similar_cases[1].verdict = EmptyDict)
        => /\ pc[1] = "miss"
           /\ error[1] = "none"
           /\ verdict_data[1] = EmptyDict

\* C13: no call ends with an exception of the search, and in the step of a
\* search that failed inside perform_web_search the lawyer gathers no
\* evidence, the generation call is still made, with an empty evidence
\* list in its prompt, and the argument it returns is recorded.
C13_SearchFailureIsEmptyEvidence ==
    [][\A w \in Workers :
          /\ error'[w] # "search"
          /\ search_errors'[w] > search_errors[w]
                => /\ search_calls'[w] = search_calls[w] + 1
                   /\ generation_calls'[w] = generation_calls[w] + 1
                   /\ prompt'[w].template = "make_argument"
                   /\ prompt'[w].evidence = <<>>
                   /\ pc'[w] # "failed"
                         => /\ Len(debate_history'[w])
                                   = Len(debate_history[w]) + 1
                            /\ prosecutor'[w].evidence = prosecutor[w].evidence
                            /\ defender'[w].evidence = defender[w].evidence
      ]_vars

\* an analysis whose two searches failed has returned its Debate verdict
C13_VerdictWithoutEvidence ==
    /\ Returned(1)
    /\ result[1].source = "debate"
    /\ search_errors[1] = 2
    /\ search_calls[1] = 2
    /\ generation_calls[1] = 3

\* C14: a request of /analyze that is not JSON, has no 'message', or whose
\* message is neither a string nor an object with 'text' is answered 400,
\* and analyze_message is not entered for it.
C14_InvalidRequestIsRejected ==
    [][\A w \in Workers :
          (/\ pc[w] = "idle"
           /\ pc'[w] # "idle"
           /\ \/ ~request'[w].is_json
              \/ ~request'[w].has_message
              \/ ~(\/ IsStr(request'[w].message)
                   \/ IsDict(request'[w].message) /\ HasText(request'[w].message)))
              => /\ status'[w] = 400
                 /\ pc'[w] = "rejected"
      ]_vars

\* C15: the dict analyze_message returns from the Debate tier has the
\* verdict, the message, and the two arguments as the lawyers gave them.
C15_DebateResultHasArguments ==
    \A w \in Workers :
        (Returned(w) /\ result[w].source = "debate")
            => /\ result[w].message = message[w]
               /\ {"message", "verdict"} \subseteq result[w].keys
               /\ {"prosecutor_argument", "defender_argument"}
                      \subseteq result[w].keys

\* C16: a call that returns source "cached" has made no generation call
\* and no search, has built no lawyer, recorded no argument and added no
\* case; neither its entry nor its lookup changes the store.
C16_CacheHitTouchesNothing ==
    [][\A w \in Workers :
          /\ (pc'[w] = "done" /\ result'[w].source = "cached")
                => /\ generation_calls'[w] = 0
                   /\ search_calls'[w] = 0
                   /\ add_case_calls'[w] = 0
                   /\ prosecutor'[w] = NoLawyer
                   /\ defender'[w] = NoLawyer
                   /\ debate_history'[w] = <<>>
          /\ (pc[w] = "idle" /\ pc'[w] = "check")
                => rag_store' = rag_store
          /\ (pc[w] = "check" /\ pc'[w] = "done")
                => /\ result'[w].source = "cached"
                   /\ store_queries'[w] = 1
                   /\ rag_store' = rag_store
                   /\ completed_runs' = completed_runs
      ]_vars

\* a call has returned a cached verdict after one question to the store
C16_CachedReturn ==
    \E w \in Workers :
        /\ Returned(w)
        /\ result[w].source = "cached"
        /\ store_queries[w] = 1
        /\ generation_calls[w] = 0
        /\ rag_store # <<>>

\* C17: the prompt that analyze_debate passes to the model holds the
\* serialized transcript: the JSON string of every entry's speaker and of
\* every entry's argument, which any layout of json.dumps writes.
C17_PromptHoldsTranscript ==
    [][\A w \in Workers :
          (pc[w] = "judge" /\ generation_calls'[w] > generation_calls[w])
              => \A k \in 1..Len(debate_history[w]) :
                     /\ Contains(PromptText(prompt'[w]),
                                 JsonString(debate_history[w][k].speaker))
                     /\ Contains(PromptText(prompt'[w]),
                                 JsonString(debate_history[w][k].argument))
      ]_vars

\* C18: the prosecutor's generation call is the first of the call, made
\* with no opponent argument and 'Opening statement' in its prompt; the
\* defender's is made after the prosecutor's text was recorded, with that
\* text as its opponent argument; the judge's is made after both entries
\* were recorded.
C18_ProsecutorThenDefender ==
    [][\A w \in Workers :
          (generation_calls'[w] > generation_calls[w])
              => /\ pc[w] = "prosecute"
                       => /\ generation_calls[w] = 0
                          /\ debate_history[w] = <<>>
                          /\ opponent_argument'[w] = PyNone
                          /\ prompt'[w].previous = OpeningStatement
                          /\ pc'[w] = "defend"
                                => debate_history'[w] =
                                       <<[speaker  |-> ProsecutorName,
                                          argument |-> prosecutor_argument'[w]]>>
                 /\ pc[w] = "defend"
                       => /\ generation_calls[w] = 1
                          /\ Len(debate_history[w]) = 1
                          /\ debate_history[w][1].argument = prosecutor_argument[w]
                          /\ opponent_argument'[w] = PyStr(prosecutor_argument[w])
                          /\ prosecutor_argument[w] # <<>>
                                => prompt'[w].previous = prosecutor_argument[w]
                          /\ pc'[w] = "judge"
                                => debate_history'[w] =
                                       Append(debate_history[w],
                                              [speaker  |-> DefenderName,
                                               argument |-> defender_argument'[w]])
                 /\ pc[w] = "judge"
                       => /\ generation_calls[w] = 2
                          /\ Len(debate_history[w]) = 2
      ]_vars

\* the defender has argued against the prosecutor's text
C18_DefenderRebutted ==
    \E w \in Workers :
        /\ pc[w] = "judge"
        /\ prosecutor_argument[w] = ArgFraud
        /\ opponent_argument[w] = PyStr(ArgFraud)
        /\ prompt[w].previous = ArgFraud
        /\ Len(debate_history[w]) = 2

\* C19: in start_debate every argument is generated with the text of the
\* entry recorded just before it as its opponent argument, the first with
\* none; the entries alternate prosecutor, defender; and the judge's
\* verdict call is made when the 2 * 3 entries of the three rounds are
\* recorded.
C19_RoundsAlternate ==
    [][(generation_calls'[1] > generation_calls[1])
          => LET history == debate_history[1]
                 n == Len(history)
             IN  /\ pc[1] \in {"prosecutor_turn", "defender_turn"}
                       => /\ n < 6
                          /\ generation_calls[1] = n
                          /\ opponent_argument'[1] =
                                 IF n = 0 THEN PyNone
                                 ELSE PyStr(history[n].argument)
                          /\ n = 0 => prompt'[1].previous = OpeningStatement
                          /\ n > 0 => prompt'[1].previous = history[n].argument
                          /\ pc'[1] # "failed"
                                => /\ Len(debate_history'[1]) = n + 1
                                   /\ SubSeq(debate_history'[1], 1, n) = history
                                   /\ debate_history'[1][n + 1].speaker =
                                          IF n % 2 = 0 THEN DebateProsecutorName
                                          ELSE DebateDefenderName
                 /\ pc[1] = "verdict"
                       => /\ n = 6
                          /\ generation_calls[1] = 6
                          /\ \A k \in 1..n :
                                 history[k].speaker =
                                     IF k % 2 = 1 THEN DebateProsecutorName
                                     ELSE DebateDefenderName
      ]_vars

\* a debate of three rounds has its verdict, the opening argument being
\* another text than the one before the last argument
C19_ThreeRoundsJudged ==
    /\ pc[1] = "printed"
    /\ round_num = 3
    /\ Len(debate_history[1]) = 6
    /\ debate_history[1][1].argument # debate_history[1][5].argument
    /\ opponent_argument[1] = PyStr(debate_history[1][5].argument)

\* C20: a response whose first line is 'Verdict: NOT A SCAM', as the
\* judge's prompt asks, gets the label NOT A SCAM, and one whose first line
\* is 'Verdict: SCAM' gets the label SCAM.
C20_BothLabelsParsed ==
    \A w \in Workers :
        (pc[w] = "returned" \/ (Returned(w) /\ result[w].source = "debate"))
            => LET first_line == ResponseLines(response[w])[1]
               IN  /\ first_line = RespPromptNotAScam
                         => verdict_data[w].verdict = NOT_A_SCAM
                   /\ first_line = RespScam
                         => verdict_data[w].verdict = SCAM

\* C21: under every interleaving of the calls, the debate_history of the
\* Judge a call holds is empty until the call's prosecutor has argued, then
\* holds exactly the arguments made in that call, in order, and the case the
\* call stores carries the serialization of exactly those two entries: no
\* entry of another call, concurrent or earlier, is in it.
C21_TranscriptIsOwn ==
    [][\A w \in Workers :
          LET own == <<[speaker  |-> ProsecutorName,
                        argument |-> prosecutor_argument[w]],
                       [speaker  |-> DefenderName,
                        argument |-> defender_argument[w]]>>
              held == debate_history[judge(w)]
          IN  /\ pc[w] \in {"check", "prosecute"} => held = <<>>
              /\ pc[w] = "defend" => held = SubSeq(own, 1, 1)
              /\ pc[w] = "judge"
                    => /\ held = own
                       /\ pc'[w] = "done"
                             => /\ Len(rag_store') = Len(rag_store) + 1
                                /\ rag_store'[Len(rag_store')].topic
                                       = message[w]
                                /\ rag_store'[Len(rag_store')].key_evidence
                                       = JsonDumps(own)]_vars

\* two calls on the same message ran at once (the second looked the store
\* up before the first stored), their prosecutors argued differently, and
\* the first has stored its case with its own two arguments
C21_ConcurrentCallsStoredApart ==
    /\ pc[1] = "done"
    /\ result[1].source = "debate"
    /\ pc[2] = "judge"
    /\ message[1] = message[2]
    /\ Len(rag_store) = 1
    /\ prosecutor_argument[2] = ArgLegit
    /\ Len(debate_history[2]) = 2
    /\ rag_store[1].key_evidence =
           JsonDumps(<<[speaker |-> ProsecutorName, argument |-> ArgFraud],
                       [speaker |-> DefenderName, argument |-> ArgLegit]>>)

====
